---- MODULE Spec2Model ----
(***************************************************************************)
(* arXiv Gemini App: the interactive command loop of main.py and the       *)
(* session state (AppState) it maintains across queries, paging,           *)
(* downloads and Gemini uploads.                                           *)
(***************************************************************************)
EXTENDS Integers, Sequences, FiniteSets, TLC

(***************************************************************************)
(* Bounds of the model.                                                    *)
(***************************************************************************)
\* number of papers the remote index holds for the largest query
MaxTotal == 3
\* longest list of display numbers typed in one download / compare command
MaxBatch == 3
\* number of uploads the Gemini file store hands out names for
MaxUploads == 2

\* AppState.__init__: current_max_results
DefaultMaxResults == 10

Min(a, b) == IF a < b THEN a ELSE b
Max(a, b) == IF a > b THEN a ELSE b

(***************************************************************************)
(* The remote paper index (arXiv), as the client sees it.                  *)
(***************************************************************************)
Queries == {"qa", "qb"}
SortOrders == {"ascending", "descending"}

\* opensearch_totalresults the index reports for a query
NumResults(q) == IF q = "qa" THEN MaxTotal ELSE 0

\* the paper at 0-based position pos of the result set of q under an order
PaperAt(q, order, pos) ==
    IF order = "ascending" THEN pos + 1 ELSE NumResults(q) - pos

\* the papers of the index; every one has an arXiv id and a PDF link
Papers == 1 .. MaxTotal
\* display numbers a user types: every number of a page, and one beyond
Nums == 1 .. (MaxTotal + 1)

\* last_results_feed = None
NoFeed == [loaded |-> FALSE, entries |-> << >>, startindex |-> 0, total |-> 0]

\* the feed a successful request returns: n entries from position start
Feed(q, order, start, n) ==
    [loaded |-> TRUE,
     entries |-> [i \in 1 .. n |-> PaperAt(q, order, start + i - 1)],
     startindex |-> start,
     total |-> NumResults(q)]

\* page lengths the index may answer with: the full page, or one fewer
PageLens(q, start, maxres) ==
    LET full == Max(0, Min(maxres, NumResults(q) - start))
    IN  {full, Max(0, full - 1)}

\* search_arxiv: the parsed feed, or None on any error
search_arxiv(q, start, maxres, order, ok, n) ==
    IF ok THEN Feed(q, order, start, n) ELSE NoFeed

(***************************************************************************)
(* Session state (class AppState) and the environment.                     *)
(***************************************************************************)
VARIABLES
    current_query,          \* "" when no query is active
    current_start_index,
    current_max_results,
    current_sort_by,
    current_sort_order,
    last_results_feed,
    total_results_count,
    gemini_enabled,
    serper_enabled,
    gemini_model_name,
    downloaded_pdfs,        \* display number -> file path
    gemini_uploaded_files,  \* file path -> Gemini file handle
    serper_api_key,         \* SERPER_API_KEY is set in the environment
    disk,                   \* the files that exist in the download directory
    partial,                \* those of them whose content was not written
                            \* to the end
    uploadCount,            \* names the Gemini file store has handed out
    poll,                   \* upload_pdf_to_gemini while it runs: its locals
                            \* and its position in the wait for processing
    pc,                     \* "prompt": at input(); "done": a command was
                            \* processed; "exited": the loop has ended;
                            \* "upload": upload_pdf_to_gemini is running;
                            \* "main": a run with --query is about to
                            \* start; "crashed": ended by an exception no
                            \* handler caught; "stuck": the first prompt
                            \* cannot be formed; "search": a call of
                            \* search_scholar_serper is about to start,
                            \* "returned": it has returned
    cmd,                    \* the command just processed
    out,                    \* what that command printed
    reqs,                   \* the remote requests that command issued, in order
    pre,                    \* the session state and the disk before that command
    pagingRun               \* commands since the last successful query were all 'n'

\* what no command but 'set model' assigns
settings == <<gemini_enabled, serper_enabled, gemini_model_name,
              serper_api_key>>

state == <<current_query, current_start_index, current_max_results,
           current_sort_by, current_sort_order, last_results_feed,
           total_results_count, settings, downloaded_pdfs,
           gemini_uploaded_files>>

env == <<disk, partial, uploadCount, poll>>

vars == <<current_query, current_start_index, current_max_results,
          current_sort_by, current_sort_order, last_results_feed,
          total_results_count, gemini_enabled, serper_enabled,
          gemini_model_name, downloaded_pdfs, gemini_uploaded_files,
          serper_api_key, disk, partial, uploadCount, poll, pc, cmd, out, reqs,
          pre, pagingRun>>

\* the fields of AppState as one value
SessionState ==
    [query |-> current_query,
     offset |-> current_start_index,
     max_results |-> current_max_results,
     sort_by |-> current_sort_by,
     sort_order |-> current_sort_order,
     feed |-> last_results_feed,
     total |-> total_results_count,
     downloads |-> downloaded_pdfs,
     uploads |-> gemini_uploaded_files,
     model |-> gemini_model_name,
     gemini_enabled |-> gemini_enabled,
     serper_enabled |-> serper_enabled]

EmptyMap == [x \in {} |-> 0]

\* the session state and the disk, as a command finds them
Snapshot == [s |-> SessionState, disk |-> disk]

NoPre ==
    [s |-> [query |-> "", offset |-> 0, max_results |-> 0, sort_by |-> "",
            sort_order |-> "", feed |-> NoFeed, total |-> 0,
            downloads |-> EmptyMap, uploads |-> EmptyMap, model |-> "",
            gemini_enabled |-> FALSE, serper_enabled |-> FALSE],
     disk |-> {}]

Cmd(name, text, nums) == [name |-> name, text |-> text, nums |-> nums]

\* what a command printed: its message, the display numbers of a displayed
\* page, the per-item results of a batch, the tally line when printed, and
\* a printed text
Out(msg) == [msg |-> msg, shown |-> << >>, items |-> << >>, succ |-> 0,
             tally |-> FALSE, text |-> << >>]

NoCmd == Cmd("", "", << >>)

Req(api, arg) == [api |-> api, arg |-> arg]

HasEntries(feed) == feed.loaded /\ Len(feed.entries) > 0

(***************************************************************************)
(* display.display_results: the numbers printed for the entries.           *)
(***************************************************************************)
DisplayIndexPageRelative(current_start, i) == i + 1

\* line 35: display_index = int(current_start) + i + 1
DisplayIndex(current_start, i) == current_start + i + 1

display_results(feed, start_index) ==
    IF ~HasEntries(feed) THEN << >>
    ELSE [i \in 1 .. Len(feed.entries) |-> DisplayIndex(feed.startindex, i - 1)]

(***************************************************************************)
(* main._get_entry_from_results: the entry a display number addresses,     *)
(* 0 for None.                                                             *)
(***************************************************************************)
_get_entry_from_results_page_relative(results_feed, display_index) ==
    IF ~HasEntries(results_feed) THEN 0
    ELSE LET entry_index == display_index - 1
         IN  IF 0 <= entry_index /\ entry_index < Len(results_feed.entries)
             THEN results_feed.entries[entry_index + 1]
             ELSE 0

_get_entry_from_results(results_feed, display_index) ==
    IF ~HasEntries(results_feed) THEN 0
    ELSE LET entry_index == display_index - 1 - results_feed.startindex
         IN  IF 0 <= entry_index /\ entry_index < Len(results_feed.entries)
             THEN results_feed.entries[entry_index + 1]
             ELSE 0

\* lines 27-28 and 570-596: the Gemini key may be set and accepted or not;
\* the Serper key may be set or not, and a set key may pass the test request
DefaultModel == "gemini-2.5-pro-exp-03-25"

\* no upload is running
NoPoll == [path |-> << >>, name |-> 0, file_state |-> "NONE", at |-> "none"]

Constructed ==
    /\ current_query = ""
    /\ current_start_index = 0
    /\ current_max_results = DefaultMaxResults
    /\ current_sort_by = "submittedDate"
    /\ current_sort_order = "descending"
    /\ last_results_feed = NoFeed
    /\ total_results_count = 0
    /\ gemini_enabled \in BOOLEAN
    /\ serper_api_key \in BOOLEAN
    /\ serper_enabled \in (IF serper_api_key THEN BOOLEAN ELSE {FALSE})
    /\ gemini_model_name = DefaultModel
    /\ downloaded_pdfs = EmptyMap
    /\ gemini_uploaded_files = EmptyMap
    /\ disk = {}
    /\ partial = {}
    /\ uploadCount = 0
    /\ poll = NoPoll
    /\ cmd = NoCmd
    /\ out = Out("")
    /\ reqs = << >>
    /\ pre = NoPre
    /\ pagingRun = FALSE

\* without --query, main enters the command loop
Init == Constructed /\ pc = "prompt"

(***************************************************************************)
(* The loop of run_interactive_mode: back to input() after a command.      *)
(***************************************************************************)
Prompt ==
    /\ pc = "done"
    /\ pc' = "prompt"
    /\ cmd' = NoCmd
    /\ out' = Out("")
    /\ reqs' = << >>
    /\ pre' = NoPre
    /\ UNCHANGED <<state, env, pagingRun>>

Quit ==
    /\ pc = "prompt"
    /\ pc' = "exited"
    /\ cmd' = Cmd("quit", "", << >>)
    /\ out' = Out("")
    /\ reqs' = << >>
    /\ pre' = Snapshot
    /\ UNCHANGED <<state, env, pagingRun>>

(***************************************************************************)
(* Command 'q': a new query.                                               *)
(***************************************************************************)
\* the download and upload maps a query with a non-empty text leaves
QueryResetKeepsUploads(downloads, uploads) ==
    [downloads |-> EmptyMap, uploads |-> uploads]

QueryReset(downloads, uploads) ==
    [downloads |-> EmptyMap, uploads |-> EmptyMap]

\* the "Reached end of results" line after a displayed page
PageMsg(num_displayed, start, maxres, total) ==
    IF num_displayed < maxres \/ start + num_displayed >= total
    THEN "Reached end of results" ELSE "page"

Query(new_query, ok, n) ==
    /\ pc = "prompt"
    /\ pc' = "done"
    /\ pre' = Snapshot
    /\ cmd' = Cmd("q", new_query, << >>)
    /\ IF new_query = ""
       THEN /\ out' = Out("Query cannot be empty")
            /\ reqs' = << >>
            /\ pagingRun' = FALSE
            /\ UNCHANGED <<state, env>>
       ELSE LET feed == search_arxiv(new_query, 0, current_max_results,
                                     current_sort_order, ok, n)
                shown == display_results(feed, 0)
                maps == QueryReset(downloaded_pdfs, gemini_uploaded_files)
            IN  /\ current_query' = new_query
                /\ current_start_index' = 0
                /\ downloaded_pdfs' = maps.downloads
                /\ gemini_uploaded_files' = maps.uploads
                /\ last_results_feed' = feed
                /\ total_results_count' = IF feed.loaded THEN feed.total ELSE 0
                /\ reqs' = << Req("index", 0) >>
                /\ out' = IF feed.loaded
                          THEN [Out(PageMsg(Len(shown), 0, current_max_results,
                                            feed.total))
                                EXCEPT !.shown = shown]
                          ELSE Out("error")
                /\ pagingRun' = feed.loaded
                /\ UNCHANGED <<current_max_results, current_sort_by,
                               current_sort_order, settings, env>>

(***************************************************************************)
(* Command 'n': the next page.                                             *)
(***************************************************************************)
\* the offset after the index request of 'n' failed: line 195 reads
\* last_results_feed.entries after line 190 has made last_results_feed
\* None, which raises AttributeError before the subtraction; the handler
\* of line 535 reports it and the offset stays advanced
NextPageFailedOffset(advanced, lastLen) == advanced

\* line 188: nothing is left after the loaded page
AtEndOffByOne(start_index, lastLen, total) == start_index + lastLen > total

AtEnd(start_index, lastLen, total) == start_index + lastLen >= total

UnexpectedErrorEndsLoop == "exited"

\* line 535: 'except Exception' prints the error inside the loop, which
\* goes on with the next input()
AfterUnexpectedError == "done"

NextPage(ok, n) ==
    /\ pc = "prompt"
    /\ pre' = Snapshot
    /\ cmd' = Cmd("n", "", << >>)
    /\ pagingRun' = pagingRun
    /\ IF current_query = ""
       THEN /\ out' = Out("No active query")
            /\ reqs' = << >>
            /\ pc' = "done"
            /\ UNCHANGED <<state, env>>
       ELSE IF ~HasEntries(last_results_feed)
       THEN /\ out' = Out("No previous results")
            /\ reqs' = << >>
            /\ pc' = "done"
            /\ UNCHANGED <<state, env>>
       ELSE IF AtEnd(current_start_index, Len(last_results_feed.entries),
                     total_results_count)
       THEN /\ out' = Out("Already at the end")
            /\ reqs' = << >>
            /\ pc' = "done"
            /\ UNCHANGED <<state, env>>
       ELSE LET lastLen == Len(last_results_feed.entries)
                start == current_start_index + lastLen
                feed == search_arxiv(current_query, start, current_max_results,
                                     current_sort_order, ok, n)
                shown == display_results(feed, start)
            IN  /\ last_results_feed' = feed
                /\ reqs' = << Req("index", start) >>
                /\ pc' = IF feed.loaded THEN "done" ELSE AfterUnexpectedError
                /\ IF feed.loaded
                   THEN /\ current_start_index' = start
                        /\ total_results_count' = feed.total
                        /\ out' = [Out(PageMsg(Len(shown), start,
                                               current_max_results, feed.total))
                                   EXCEPT !.shown = shown]
                   ELSE /\ current_start_index' =
                               NextPageFailedOffset(start, lastLen)
                        /\ total_results_count' = total_results_count
                        /\ out' = Out("Unexpected error")
                /\ UNCHANGED <<current_query, current_max_results,
                               current_sort_by, current_sort_order,
                               settings, downloaded_pdfs,
                               gemini_uploaded_files, env>>

(***************************************************************************)
(* arxiv_client.download_pdf and the command 'download'.                   *)
(***************************************************************************)
NoPath == << >>

\* filepath = os.path.join(directory, safe_id + ".pdf")
PathOf(entry) == <<"arxiv_downloads", entry>>

\* download_pdf(entry): the path returned (NoPath for None), the files on
\* disk afterwards and the requests issued; a failed transfer removes the
\* partial file
download_pdf_always_fetches(entry, files, fetch_ok) ==
    IF fetch_ok
    THEN [path |-> PathOf(entry), files |-> files \cup {PathOf(entry)},
          reqs |-> << Req("pdf", entry) >>]
    ELSE [path |-> NoPath, files |-> files \ {PathOf(entry)},
          reqs |-> << Req("pdf", entry) >>]

download_pdf(entry, files, fetch_ok) ==
    IF PathOf(entry) \in files
    THEN [path |-> PathOf(entry), files |-> files, reqs |-> << >>]
    ELSE IF fetch_ok
    THEN [path |-> PathOf(entry), files |-> files \cup {PathOf(entry)},
          reqs |-> << Req("pdf", entry) >>]
    ELSE [path |-> NoPath, files |-> files,
          reqs |-> << Req("pdf", entry) >>]

\* d[k] = v on a Python dict
Put(map, k, v) == [x \in DOMAIN map \cup {k} |-> IF x = k THEN v ELSE map[x]]

\* d.pop(k, None) on a Python dict
PopKeepsEntry(map, k) == map

Pop(map, k) == [x \in DOMAIN map \ {k} |-> map[x]]

Item(num, entry, path) == [num |-> num, entry |-> entry, path |-> path]

\* line 226: an invalid number is reported and the loop goes on with the
\* next position
AbortOnInvalid(i, paper_nums) == Len(paper_nums) + 1

SkipInvalid(i, paper_nums) == i + 1

\* lines 216-226: the loop over paper_nums from position i on; fails holds
\* the positions whose transfer fails
RECURSIVE DownloadLoop(_, _, _, _, _)
DownloadLoop(feed, paper_nums, i, fails, acc) ==
    IF i > Len(paper_nums) THEN acc
    ELSE LET num == paper_nums[i]
             entry_to_download == _get_entry_from_results(feed, num)
         IN  IF entry_to_download # 0
             THEN LET r == download_pdf(entry_to_download, acc.files,
                                        i \notin fails)
                  IN  DownloadLoop(feed, paper_nums, i + 1, fails,
                        [downloads |-> IF r.path # NoPath
                                       THEN Put(acc.downloads, num, r.path)
                                       ELSE acc.downloads,
                         files |-> r.files,
                         reqs |-> acc.reqs \o r.reqs,
                         items |-> Append(acc.items,
                                          Item(num, entry_to_download, r.path)),
                         succ |-> IF r.path # NoPath THEN acc.succ + 1
                                  ELSE acc.succ])
             ELSE DownloadLoop(feed, paper_nums, SkipInvalid(i, paper_nums),
                        fails,
                        [acc EXCEPT !.items = Append(@, Item(num, 0, NoPath))])

\* line 228: the tally line is printed for more than one number
TallyPrinted(paper_nums) == Len(paper_nums) > 1

Download(paper_nums, parse_ok, fails) ==
    /\ pc = "prompt"
    /\ pc' = "done"
    /\ pre' = Snapshot
    /\ cmd' = Cmd("download", IF parse_ok THEN "" ELSE "x", paper_nums)
    /\ pagingRun' = FALSE
    /\ IF ~HasEntries(last_results_feed)
       THEN /\ out' = Out("No results displayed")
            /\ reqs' = << >>
            /\ UNCHANGED <<state, env>>
       ELSE IF Len(paper_nums) = 0
       THEN /\ out' = Out("Missing paper number(s)")
            /\ reqs' = << >>
            /\ UNCHANGED <<state, env>>
       ELSE IF ~parse_ok
       THEN /\ out' = Out("Invalid number format")
            /\ reqs' = << >>
            /\ UNCHANGED <<state, env>>
       ELSE LET r == DownloadLoop(last_results_feed, paper_nums, 1, fails,
                        [downloads |-> downloaded_pdfs, files |-> disk,
                         reqs |-> << >>, items |-> << >>, succ |-> 0])
            IN  /\ downloaded_pdfs' = r.downloads
                /\ disk' = r.files
                /\ reqs' = r.reqs
                /\ out' = [Out("download") EXCEPT
                             !.items = r.items,
                             !.succ = r.succ,
                             !.tally = TallyPrinted(paper_nums)]
                /\ UNCHANGED <<current_query, current_start_index,
                               current_max_results, current_sort_by,
                               current_sort_order, last_results_feed,
                               total_results_count, settings,
                               gemini_uploaded_files, partial, uploadCount,
                               poll>>

(***************************************************************************)
(* gemini_client.upload_pdf_to_gemini and main._get_or_upload_gemini_file. *)
(***************************************************************************)
\* what the file store answers: a file in state ACTIVE, a file in another
\* state, or an error raised by the call
FileStates == {"ACTIVE", "FAILED", "error"}

NoFile == [name |-> 0, state |-> "NONE"]

File(name) == [name |-> name, state |-> "ACTIVE"]

\* upload_pdf_to_gemini(filepath): the ACTIVE file or None, the number of
\* names handed out afterwards, the requests issued
upload_pdf_to_gemini(filepath, count, up) ==
    IF up = "ACTIVE"
    THEN [file |-> File(count + 1), count |-> count + 1,
          reqs |-> << Req("upload", filepath) >>]
    ELSE IF up = "FAILED"
    THEN [file |-> NoFile, count |-> count + 1,
          reqs |-> << Req("upload", filepath), Req("delete_file", count + 1) >>]
    ELSE [file |-> NoFile, count |-> count, reqs |-> << Req("upload", filepath) >>]

\* lines 77-83: the upload map after the upload returned uploaded_file
StoreUploadKeepsStale(uploads, pdf_filepath, uploaded_file) ==
    IF uploaded_file # NoFile /\ pdf_filepath \notin DOMAIN uploads
    THEN Put(uploads, pdf_filepath, uploaded_file)
    ELSE uploads

StoreUploadKeepsOnFailure(uploads, pdf_filepath, uploaded_file) ==
    IF uploaded_file # NoFile /\ uploaded_file.state = "ACTIVE"
    THEN Put(uploads, pdf_filepath, uploaded_file)
    ELSE uploads

StoreUpload(uploads, pdf_filepath, uploaded_file) ==
    IF uploaded_file # NoFile /\ uploaded_file.state = "ACTIVE"
    THEN Put(uploads, pdf_filepath, uploaded_file)
    ELSE Pop(uploads, pdf_filepath)

\* lines 62-75: the requests of the check of a cached file, whose answer
\* is check
CachedCheck(uploads, pdf_filepath, check) ==
    IF pdf_filepath \notin DOMAIN uploads THEN << >>
    ELSE IF check = "FAILED"
    THEN << Req("get_file", uploads[pdf_filepath].name),
            Req("delete_file", uploads[pdf_filepath].name) >>
    ELSE << Req("get_file", uploads[pdf_filepath].name) >>

\* _get_or_upload_gemini_file(pdf_filepath, state): check is the answer of
\* get_file for a cached file, up the outcome of an upload
_get_or_upload_gemini_file(pdf_filepath, uploads, count, check, up) ==
    LET cached == pdf_filepath \in DOMAIN uploads
        existing_file == IF cached THEN uploads[pdf_filepath] ELSE NoFile
        checkReqs == CachedCheck(uploads, pdf_filepath, check)
    IN  IF cached /\ check = "ACTIVE"
        THEN [file |-> existing_file, uploads |-> uploads, count |-> count,
              reqs |-> checkReqs]
        ELSE LET u == upload_pdf_to_gemini(pdf_filepath, count, up)
             IN  [file |-> u.file,
                  uploads |-> StoreUpload(uploads, pdf_filepath, u.file),
                  count |-> u.count,
                  reqs |-> checkReqs \o u.reqs]

(***************************************************************************)
(* Commands 'ask', 'ask_fig', 'sum', 'ext'.                                *)
(***************************************************************************)
AskCommands == {"ask", "ask_fig", "sum", "ext"}

\* line 244: a number that is not in the download map is refused
AskRequiresDownload(result_num, downloads) == result_num \in DOMAIN downloads

\* lines 254-272: the function of gemini_client each command calls; both
\* ask and ask_fig call ask_question_about_pdf
GeminiFunction(command) ==
    IF command \in {"ask", "ask_fig"} THEN "ask_question_about_pdf"
    ELSE IF command = "sum" THEN "summarize_or_explain_pdf"
    ELSE "extract_structured_data"

\* what reaches the model: the prompt built by that function from the text
\* the user typed and the file, sent to the model of the given name
GeminiCall(command, file_name, model_name) ==
    [op |-> GeminiFunction(command),
     prompt |-> << "text", file_name >>,
     files |-> << file_name >>,
     model |-> model_name]

\* lines 249-272: the Gemini request follows the requests of the upload
AskRequestsModelFirst(upload_reqs, generate) == << generate >> \o upload_reqs

AskRequests(upload_reqs, generate) == Append(upload_reqs, generate)

Ask(command, result_num, arg_ok, check, up, ai_ok) ==
    /\ pc = "prompt"
    /\ pc' = "done"
    /\ pre' = Snapshot
    /\ cmd' = Cmd(command, IF arg_ok THEN "" ELSE "x", << result_num >>)
    /\ pagingRun' = FALSE
    /\ IF ~gemini_enabled
       THEN /\ out' = Out("Gemini disabled")
            /\ reqs' = << >>
            /\ UNCHANGED <<state, env>>
       ELSE IF ~AskRequiresDownload(result_num, downloaded_pdfs)
       THEN /\ out' = Out("PDF not downloaded")
            /\ reqs' = << >>
            /\ UNCHANGED <<state, env>>
       ELSE LET pdf_filepath == downloaded_pdfs[result_num] IN
            IF pdf_filepath \notin disk
            THEN /\ out' = Out("PDF file missing")
                 /\ reqs' = << >>
                 /\ downloaded_pdfs' = Pop(downloaded_pdfs, result_num)
                 /\ gemini_uploaded_files' = Pop(gemini_uploaded_files,
                                                 pdf_filepath)
                 /\ UNCHANGED <<current_query, current_start_index,
                                current_max_results, current_sort_by,
                                current_sort_order, last_results_feed,
                                total_results_count, settings, env>>
            ELSE LET g == _get_or_upload_gemini_file(pdf_filepath,
                              gemini_uploaded_files, uploadCount, check, up)
                 IN  /\ g.count <= MaxUploads
                     /\ gemini_uploaded_files' = g.uploads
                     /\ uploadCount' = g.count
                     /\ IF g.file = NoFile
                        THEN /\ out' = Out("PDF upload/retrieval failed")
                             /\ reqs' = g.reqs
                        ELSE IF ~arg_ok
                        THEN /\ out' = Out("Invalid argument")
                             /\ reqs' = g.reqs
                        ELSE /\ out' = Out(IF ai_ok THEN "response"
                                           ELSE "Gemini failed")
                             /\ reqs' = AskRequests(g.reqs,
                                   Req("generate",
                                       GeminiCall(command, g.file.name,
                                                  gemini_model_name)))
                     /\ UNCHANGED <<current_query, current_start_index,
                                    current_max_results, current_sort_by,
                                    current_sort_order, last_results_feed,
                                    total_results_count, settings,
                                    downloaded_pdfs, disk, partial, poll>>

(***************************************************************************)
(* upload_pdf_to_gemini step by step, as a command 'ask', 'ask_fig', 'sum' *)
(* or 'ext' that has to upload runs it: the upload call, the wait for      *)
(* processing (gemini_client.py lines 139-148), and the return to          *)
(* _get_or_upload_gemini_file and to the command.                          *)
(***************************************************************************)
\* what upload_file and get_file answer: the state of the file, or an
\* exception
RemoteStates == {"PROCESSING", "ACTIVE", "FAILED", "error"}

\* line 142: the condition of the while loop
KeepsPolling(file_state) == file_state = "PROCESSING"

\* where the function goes once file_state is assigned (lines 139, 148);
\* an exception leaves the loop for the handler of line 166
AfterState(file_state) ==
    IF KeepsPolling(file_state) THEN "sleep" ELSE "return"

\* lines 236-249 and 62-77, then lines 131-139 of gemini_client.py: the
\* command finds the paper downloaded and on disk, the cached file absent
\* or not confirmed ACTIVE, and upload_file answers with first
UploadBegin(command, result_num, check, first) ==
    /\ pc = "prompt"
    /\ gemini_enabled
    /\ AskRequiresDownload(result_num, downloaded_pdfs)
    /\ downloaded_pdfs[result_num] \in disk
    /\ LET pdf_filepath == downloaded_pdfs[result_num]
           named == first # "error"
       IN  /\ ~(pdf_filepath \in DOMAIN gemini_uploaded_files
                    /\ check = "ACTIVE")
           /\ (IF named THEN uploadCount + 1 ELSE uploadCount) <= MaxUploads
           /\ pc' = "upload"
           /\ pre' = Snapshot
           /\ cmd' = Cmd(command, "", << result_num >>)
           /\ out' = Out("")
           /\ reqs' = Append(CachedCheck(gemini_uploaded_files, pdf_filepath,
                                         check),
                             Req("upload", pdf_filepath))
           /\ uploadCount' = IF named THEN uploadCount + 1 ELSE uploadCount
           /\ poll' = [path |-> pdf_filepath,
                       name |-> IF named THEN uploadCount + 1 ELSE 0,
                       file_state |-> first,
                       at |-> AfterState(first)]
    /\ pagingRun' = FALSE
    /\ UNCHANGED <<state, disk, partial>>

\* line 144: time.sleep(5)
PollSleep ==
    /\ pc = "upload"
    /\ poll.at = "sleep"
    /\ poll' = [poll EXCEPT !.at = "get_file"]
    /\ UNCHANGED <<state, disk, partial, uploadCount, pc, cmd, out, reqs,
                   pre, pagingRun>>

\* lines 147-148: get_file answers, and the loop condition is tested again
\* (the requests of the wait are not added to reqs)
PollGetFile(answer) ==
    /\ pc = "upload"
    /\ poll.at = "get_file"
    /\ poll' = [poll EXCEPT !.file_state = answer, !.at = AfterState(answer)]
    /\ UNCHANGED <<state, disk, partial, uploadCount, pc, cmd, out, reqs,
                   pre, pagingRun>>

\* lines 152-180: the ACTIVE file is returned, any other file is deleted
\* and None returned; main.py lines 78-83 and 250-272: the file is stored
\* or the path evicted, and the command asks the model or reports
UploadReturn(ai_ok) ==
    /\ pc = "upload"
    /\ poll.at = "return"
    /\ LET uploaded_file == IF poll.file_state = "ACTIVE"
                            THEN File(poll.name) ELSE NoFile
       IN  /\ gemini_uploaded_files' =
                  StoreUpload(gemini_uploaded_files, poll.path, uploaded_file)
           /\ IF uploaded_file = NoFile
              THEN /\ out' = Out("PDF upload/retrieval failed")
                   /\ reqs' = IF poll.name # 0
                              THEN Append(reqs, Req("delete_file", poll.name))
                              ELSE reqs
              ELSE /\ out' = Out(IF ai_ok THEN "response" ELSE "Gemini failed")
                   /\ reqs' = AskRequests(reqs,
                                 Req("generate",
                                     GeminiCall(cmd.name, uploaded_file.name,
                                                gemini_model_name)))
    /\ pc' = "done"
    /\ poll' = NoPoll
    /\ UNCHANGED <<current_query, current_start_index, current_max_results,
                   current_sort_by, current_sort_order, last_results_feed,
                   total_results_count, settings, downloaded_pdfs, disk,
                   partial, uploadCount, cmd, pre, pagingRun>>

(***************************************************************************)
(* Command 'compare'.                                                      *)
(***************************************************************************)
\* lines 359-373: the loop over paper_nums from position i on; fails holds
\* the positions whose upload fails, with outcome upfail.  keyerror: line
\* 360 reads an entry of the download map that an earlier iteration of the
\* same loop deleted; missing: the papers reported as 'PDF file missing'
RECURSIVE CompareLoop(_, _, _, _, _, _, _)
CompareLoop(paper_nums, i, files, check, upfail, fails, acc) ==
    IF i > Len(paper_nums) \/ acc.keyerror THEN acc
    ELSE LET paper_num == paper_nums[i] IN
         IF paper_num \notin DOMAIN acc.downloads
         THEN [acc EXCEPT !.keyerror = TRUE]
         ELSE LET pdf_filepath == acc.downloads[paper_num] IN
              IF pdf_filepath \notin files
              THEN CompareLoop(paper_nums, i + 1, files, check, upfail, fails,
                     [acc EXCEPT !.downloads = Pop(@, paper_num),
                                 !.uploads = Pop(@, pdf_filepath),
                                 !.missing = Append(@,
                                     Item(paper_num, 0, pdf_filepath))])
              ELSE LET g == _get_or_upload_gemini_file(pdf_filepath,
                                acc.uploads, acc.count, check,
                                IF i \in fails THEN upfail ELSE "ACTIVE")
                   IN  CompareLoop(paper_nums, i + 1, files, check, upfail,
                         fails,
                         [acc EXCEPT
                            !.uploads = g.uploads,
                            !.count = g.count,
                            !.reqs = @ \o g.reqs,
                            !.file_objects = IF g.file # NoFile
                                             THEN Append(@, g.file.name)
                                             ELSE @])

\* line 375: the comparison is made with the files that could be obtained
CompareNeedsAll(file_objects, paper_nums) ==
    Len(file_objects) >= 2 /\ Len(file_objects) = Len(paper_nums)

CompareAllowed(file_objects, paper_nums) == Len(file_objects) >= 2

Compare(paper_nums, type_ok, check, upfail, fails, ai_ok) ==
    /\ pc = "prompt"
    /\ pc' = "done"
    /\ pre' = Snapshot
    /\ cmd' = Cmd("compare", IF type_ok THEN "" ELSE "x", paper_nums)
    /\ pagingRun' = FALSE
    /\ IF ~gemini_enabled
       THEN /\ out' = Out("Gemini disabled")
            /\ reqs' = << >>
            /\ UNCHANGED <<state, env>>
       ELSE IF Len(paper_nums) = 0
       THEN /\ out' = Out("Missing arguments")
            /\ reqs' = << >>
            /\ UNCHANGED <<state, env>>
       ELSE IF Len(paper_nums) < 2
       THEN /\ out' = Out("At least two paper numbers are required")
            /\ reqs' = << >>
            /\ UNCHANGED <<state, env>>
       ELSE IF ~type_ok
       THEN /\ out' = Out("Invalid comparison type")
            /\ reqs' = << >>
            /\ UNCHANGED <<state, env>>
       ELSE IF \E i \in 1 .. Len(paper_nums) :
                  paper_nums[i] \notin DOMAIN downloaded_pdfs
       THEN /\ out' = Out("papers are not downloaded")
            /\ reqs' = << >>
            /\ UNCHANGED <<state, env>>
       ELSE LET r == CompareLoop(paper_nums, 1, disk, check, upfail, fails,
                        [downloads |-> downloaded_pdfs,
                         uploads |-> gemini_uploaded_files,
                         count |-> uploadCount, reqs |-> << >>,
                         file_objects |-> << >>, keyerror |-> FALSE,
                         missing |-> << >>])
            IN  /\ r.count <= MaxUploads
                /\ downloaded_pdfs' = r.downloads
                /\ gemini_uploaded_files' = r.uploads
                /\ uploadCount' = r.count
                /\ IF r.keyerror
                   THEN /\ out' = [Out("Unexpected error")
                                     EXCEPT !.items = r.missing]
                        /\ reqs' = r.reqs
                   ELSE IF ~CompareAllowed(r.file_objects, paper_nums)
                   THEN /\ out' = [Out("At least two valid PDF files are required")
                                     EXCEPT !.items = r.missing]
                        /\ reqs' = r.reqs
                   ELSE /\ out' = [Out(IF ai_ok THEN "response"
                                       ELSE "Gemini failed")
                                     EXCEPT !.items = r.missing]
                        /\ reqs' = Append(r.reqs,
                              Req("generate", [op |-> "compare",
                                               files |-> r.file_objects,
                                               model |-> gemini_model_name]))
                /\ UNCHANGED <<current_query, current_start_index,
                               current_max_results, current_sort_by,
                               current_sort_order, last_results_feed,
                               total_results_count, settings, disk,
                               partial, poll>>

(***************************************************************************)
(* Command 'set'.                                                          *)
(***************************************************************************)
SetMax(new_max) ==
    /\ pc = "prompt"
    /\ pc' = "done"
    /\ pre' = Snapshot
    /\ cmd' = Cmd("set max", "", << new_max >>)
    /\ pagingRun' = FALSE
    /\ current_max_results' = Max(1, Min(2000, new_max))
    /\ current_start_index' = 0
    /\ out' = Out("Max results set")
    /\ reqs' = << >>
    /\ UNCHANGED <<current_query, current_sort_by, current_sort_order,
                   last_results_feed, total_results_count, settings,
                   downloaded_pdfs, gemini_uploaded_files, env>>

SetSort(api_field_name, matched_order) ==
    /\ pc = "prompt"
    /\ pc' = "done"
    /\ pre' = Snapshot
    /\ cmd' = Cmd("set sort", matched_order, << >>)
    /\ pagingRun' = FALSE
    /\ current_sort_by' = api_field_name
    /\ current_sort_order' = matched_order
    /\ current_start_index' = 0
    /\ out' = Out("Sort order set")
    /\ reqs' = << >>
    /\ UNCHANGED <<current_query, current_max_results, last_results_feed,
                   total_results_count, settings, downloaded_pdfs,
                   gemini_uploaded_files, env>>

(***************************************************************************)
(* The user deletes a downloaded file outside the program.                 *)
(***************************************************************************)
RemoveFile(path) ==
    /\ pc = "prompt"
    /\ path \in disk
    /\ disk' = disk \ {path}
    /\ partial' = partial \ {path}
    /\ UNCHANGED <<state, uploadCount, poll, pc, cmd, out, reqs, pre,
                   pagingRun>>

(***************************************************************************)
(* The records of the index, as feedparser hands them to citation_utils.   *)
(* A text is a sequence of tokens; a name is given as arXiv gives it, the  *)
(* given name before the surname.                                          *)
(***************************************************************************)
Names == << <<"Ada", "Lovelace">>, <<"Alan", "Turing">>,
            <<"Grace", "Hopper">> >>

\* paper 1 has one author, paper 2 two, paper 3 three, the others none
AuthorsOf(entry) ==
    IF entry \in 1 .. 3 THEN SubSeq(Names, 1, entry) ELSE << >>

\* the papers with an odd number carry a DOI
DoiOf(entry) == IF entry % 2 = 1 THEN <<"10.1000/", ToString(entry)>> ELSE << >>

\* the papers 2 and 5 carry a journal reference
JournalRefOf(entry) == IF entry % 3 = 2 THEN <<"J. Appl. Log.">> ELSE << >>

\* entry.link of an arXiv record is the address of its abstract page
AbsUrl(entry) == <<"https://arxiv.org/abs/", ToString(entry)>>

Record(entry) ==
    [title |-> <<"Title", ToString(entry)>>,
     authors |-> AuthorsOf(entry),
     published |-> <<"2024">>,
     link |-> AbsUrl(entry),
     arxiv_doi |-> DoiOf(entry),
     arxiv_journal_ref |-> JournalRefOf(entry)]

(***************************************************************************)
(* citation_utils.format_citation and format_apa.                          *)
(***************************************************************************)
CITATION_FORMATS == {"bibtex", "apa", "mla", "chicago", "ieee"}

\* lines 120-128: one author, two authors, more, none
ApaAuthors(authors) ==
    IF Len(authors) = 0 THEN <<"Unknown Author">>
    ELSE IF Len(authors) = 1 THEN authors[1]
    ELSE IF Len(authors) = 2 THEN authors[1] \o <<"&">> \o authors[2]
    ELSE authors[1] \o <<"et al.">>

format_apa(title, authors, year, url, doi, journal_ref) ==
    ApaAuthors(authors)
        \o <<".", "(">> \o year \o <<")", ".">> \o title \o <<".">>
        \o (IF journal_ref # << >> THEN journal_ref \o <<".">>
            ELSE <<"arXiv preprint", ".">>)
        \o (IF doi # << >> THEN <<"https://doi.org/">> \o doi
            ELSE IF url # << >> THEN <<"Retrieved from">> \o url
            ELSE << >>)

\* the text of the other styles is not modelled: the style and the title
format_citation(entry, format_type) ==
    LET r == Record(entry)
    IN  IF format_type = "apa"
        THEN format_apa(r.title, r.authors, r.published, r.link, r.arxiv_doi,
                        r.arxiv_journal_ref)
        ELSE <<format_type>> \o r.title

(***************************************************************************)
(* The handlers of 'cite', 'show', 'help' and of a word that is no command *)
(* hold no assignment to state and touch no file.                          *)
(***************************************************************************)
ResetsOffset ==
    /\ current_start_index' = 0
    /\ UNCHANGED <<current_query, current_max_results, current_sort_by,
                   current_sort_order, last_results_feed, total_results_count,
                   settings, downloaded_pdfs, gemini_uploaded_files, env>>

NoAssignment == UNCHANGED <<state, env>>

(***************************************************************************)
(* Command 'cite'.  args is "" for no argument, "x" for a number that does *)
(* not parse, "N" for a number; citation_format is "" when none is given.  *)
(***************************************************************************)
Cite(args, result_num, citation_format) ==
    /\ pc = "prompt"
    /\ pc' = "done"
    /\ pre' = Snapshot
    /\ cmd' = Cmd("cite", citation_format, << result_num >>)
    /\ pagingRun' = FALSE
    /\ reqs' = << >>
    /\ NoAssignment
    /\ LET format == IF citation_format = "" THEN "bibtex"
                     ELSE citation_format
           entry == _get_entry_from_results(last_results_feed, result_num)
       IN  out' =
             IF ~HasEntries(last_results_feed)
             THEN Out("No results displayed")
             ELSE IF args = "" THEN Out("Missing arguments")
             ELSE IF args = "x" THEN Out("Invalid result number")
             ELSE IF format \notin CITATION_FORMATS
             THEN Out("Invalid citation format")
             ELSE IF entry = 0 THEN Out("Invalid result number")
             ELSE [Out("citation") EXCEPT
                     !.text = format_citation(entry, format)]

(***************************************************************************)
(* Commands 'show', 'help', 'set model', the empty line and a word that is *)
(* no command.                                                             *)
(***************************************************************************)
\* lines 497-501: the download map in the order of the display numbers
RECURSIVE DownloadLines(_, _, _, _)
DownloadLines(downloads, uploads, files, idx) ==
    IF idx > MaxTotal + 1 THEN << >>
    ELSE (IF idx \in DOMAIN downloads
          THEN << [num |-> idx, path |-> downloads[idx],
                   ok |-> downloads[idx] \in files,
                   uploaded |-> downloads[idx] \in DOMAIN uploads] >>
          ELSE << >>)
         \o DownloadLines(downloads, uploads, files, idx + 1)

Show(sub_command) ==
    /\ pc = "prompt"
    /\ pc' = "done"
    /\ pre' = Snapshot
    /\ cmd' = Cmd("show", sub_command, << >>)
    /\ pagingRun' = FALSE
    /\ reqs' = << >>
    /\ NoAssignment
    /\ out' = IF sub_command = "downloads"
              THEN [Out("Downloaded PDFs") EXCEPT
                      !.items = DownloadLines(downloaded_pdfs,
                                    gemini_uploaded_files, disk, 1)]
              ELSE IF sub_command = "model"
              THEN [Out("Current Gemini model") EXCEPT
                      !.text = <<gemini_model_name>>]
              ELSE Out("Unknown 'show' command")

Help ==
    /\ pc = "prompt"
    /\ pc' = "done"
    /\ pre' = Snapshot
    /\ cmd' = Cmd("help", "", << >>)
    /\ pagingRun' = FALSE
    /\ reqs' = << >>
    /\ out' = Out("Commands")
    /\ NoAssignment

\* line 530: elif not command: pass
EmptyLine ==
    /\ pc = "prompt"
    /\ pc' = "done"
    /\ pre' = Snapshot
    /\ cmd' = Cmd("", "", << >>)
    /\ pagingRun' = FALSE
    /\ reqs' = << >>
    /\ out' = Out("")
    /\ UNCHANGED <<state, env>>

\* the words of the dispatch of lines 142-528
CommandWords ==
    {"quit", "help", "q", "n", "download", "ask", "ask_fig", "sum", "ext",
     "compare", "rel", "cite", "show", "set"}

\* lines 530-531: any other word; the message quotes the word
Unknown(command) ==
    /\ pc = "prompt"
    /\ command \notin CommandWords \cup {""}
    /\ pc' = "done"
    /\ pre' = Snapshot
    /\ cmd' = Cmd("unknown", command, << >>)
    /\ pagingRun' = FALSE
    /\ reqs' = << >>
    /\ out' = [Out("Unknown command") EXCEPT !.text = <<command>>]
    /\ NoAssignment

\* lines 524-527
SetModel(new_model) ==
    /\ pc = "prompt"
    /\ pc' = "done"
    /\ pre' = Snapshot
    /\ cmd' = Cmd("set model", new_model, << >>)
    /\ pagingRun' = FALSE
    /\ reqs' = << >>
    /\ IF new_model # ""
       THEN /\ gemini_model_name' = new_model
            /\ out' = Out("Gemini model set")
       ELSE /\ out' = Out("Model name cannot be empty")
            /\ UNCHANGED gemini_model_name
    /\ UNCHANGED <<current_query, current_start_index, current_max_results,
                   current_sort_by, current_sort_order, last_results_feed,
                   total_results_count, gemini_enabled, serper_enabled,
                   serper_api_key, downloaded_pdfs, gemini_uploaded_files,
                   env>>

(***************************************************************************)
(* Command 'rel' (rel_command.handle_rel_command).  first is the answer to *)
(* the first Serper search ("error", "empty" or "results"), further the    *)
(* number of searches that follow an empty answer, found whether the last  *)
(* of them returned papers.                                                *)
(***************************************************************************)
RelAlwaysConfigured == TRUE

\* line 113: if not serper_api_key
RelConfigured == serper_api_key

RelSearches(first, further) ==
    [i \in 1 .. (IF first = "empty" THEN 1 + further ELSE 1)
        |-> Req("serper", i)]

Rel(result_num, parse_ok, first, further, found) ==
    /\ pc = "prompt"
    /\ pc' = "done"
    /\ pre' = Snapshot
    /\ cmd' = Cmd("rel", IF parse_ok THEN "" ELSE "x", << result_num >>)
    /\ pagingRun' = FALSE
    /\ UNCHANGED <<state, env>>
    /\ IF ~RelConfigured
       THEN /\ out' = Out("Serper API not configured")
            /\ reqs' = << >>
       ELSE IF ~HasEntries(last_results_feed)
       THEN /\ out' = Out("No results displayed")
            /\ reqs' = << >>
       ELSE IF ~parse_ok
       THEN /\ out' = Out("Invalid number format")
            /\ reqs' = << >>
       ELSE IF _get_entry_from_results(last_results_feed, result_num) = 0
       THEN /\ out' = Out("Invalid result number")
            /\ reqs' = << >>
       ELSE \* line 180: the keywords are asked of Gemini whether or not
            \* Gemini is enabled, with the default model
            /\ reqs' = << Req("generate", [op |-> "generate_content",
                                           files |-> << >>,
                                           model |-> DefaultModel]) >>
                         \o RelSearches(first, further)
            /\ out' = IF first = "error" THEN Out("Failed to get results")
                      ELSE IF first = "results" \/ found
                      THEN Out("Related Papers")
                      ELSE Out("No related papers found")

(***************************************************************************)
(* The input ends (EOFError, line 534) or the user interrupts              *)
(* (KeyboardInterrupt, line 533) while the loop waits at input().          *)
(***************************************************************************)
EndOfInput ==
    /\ pc = "prompt"
    /\ pc' = "exited"
    /\ cmd' = Cmd("EOF", "", << >>)
    /\ out' = Out("EOF received")
    /\ reqs' = << >>
    /\ pre' = Snapshot
    /\ UNCHANGED <<state, env, pagingRun>>

Interrupt ==
    /\ pc = "prompt"
    /\ pc' = "exited"
    /\ cmd' = Cmd("interrupt", "", << >>)
    /\ out' = Out("Interrupt received")
    /\ reqs' = << >>
    /\ pre' = Snapshot
    /\ UNCHANGED <<state, env, pagingRun>>

(***************************************************************************)
(* A run with --query (main, lines 600-815), given --query, --start,       *)
(* --max-results and optionally --download and --ask.  given tells whether *)
(* --download is present, paper_nums and parse_ok its value as for the     *)
(* command 'download', ask whether --ask is present.                       *)
(***************************************************************************)
Args(query, start, given, paper_nums, parse_ok, ask, feed) ==
    [name |-> "one-shot", text |-> query, nums |-> paper_nums,
     start |-> start, given |-> given, ok |-> parse_ok, ask |-> ask,
     feed |-> feed]

\* lines 609-618: the first number of --download, 0 for None
ActionTarget(given, paper_nums, parse_ok) ==
    IF given /\ parse_ok /\ Len(paper_nums) > 0 THEN paper_nums[1] ELSE 0

OneShot(query, start, maxres, ok, n, given, paper_nums, parse_ok, ask, fetch_ok, up, ai_ok) ==
    /\ pc = "main"
    /\ pre' = Snapshot
    /\ pagingRun' = FALSE
    /\ current_max_results' = maxres
    /\ current_query' = query
    /\ LET results_feed == search_arxiv(query, start, maxres,
                                        current_sort_order, ok, n)
           shown == display_results(results_feed, start)
           target == ActionTarget(given, paper_nums, parse_ok)
           entry_action == IF HasEntries(results_feed)
                           THEN _get_entry_from_results(results_feed, target)
                           ELSE 0
           d == IF entry_action # 0
                THEN download_pdf(entry_action, disk, fetch_ok)
                ELSE [path |-> NoPath, files |-> disk, reqs |-> << >>]
           g == _get_or_upload_gemini_file(d.path, gemini_uploaded_files,
                                           uploadCount, "ACTIVE", up)
           printed(msg) == [Out(msg) EXCEPT !.shown = shown]
       IN  /\ cmd' = Args(query, start, given, paper_nums, parse_ok, ask,
                          results_feed)
           /\ IF target # 0 /\ ask
              THEN \* lines 628-637, then the Gemini action of lines 681-699
                   /\ pc' = "exited"
                   /\ disk' = d.files
                   /\ IF ~gemini_enabled \/ d.path = NoPath
                      THEN /\ out' =
                                [printed(IF ~gemini_enabled
                                         THEN "API not configured"
                                         ELSE "PDF download failed")
                                   EXCEPT !.items =
                                     << Item(target, entry_action, d.path) >>]
                           /\ reqs' = << Req("index", start) >> \o d.reqs
                           /\ UNCHANGED <<gemini_uploaded_files, uploadCount>>
                      ELSE /\ gemini_uploaded_files' = g.uploads
                           /\ uploadCount' = g.count
                           /\ out' =
                                [printed(IF g.file = NoFile
                                         THEN "PDF upload/retrieval failed"
                                         ELSE IF ai_ok THEN "response"
                                         ELSE "Gemini failed")
                                   EXCEPT !.items =
                                     << Item(target, entry_action, d.path) >>]
                           /\ reqs' =
                                << Req("index", start) >> \o d.reqs \o
                                (IF g.file = NoFile THEN g.reqs
                                 ELSE AskRequests(g.reqs,
                                        Req("generate",
                                            GeminiCall("ask", g.file.name,
                                                       gemini_model_name))))
              ELSE /\ reqs' = << Req("index", start) >>
                   /\ UNCHANGED <<disk, uploadCount, gemini_uploaded_files>>
                   /\ IF given
                      THEN \* lines 638-642: _get_entry_from_results is
                           \* handed the text of --download, and subtracting
                           \* from a str raises TypeError
                           IF HasEntries(results_feed)
                           THEN /\ pc' = "crashed"
                                /\ out' = printed("TypeError")
                           ELSE /\ pc' = "exited"
                                /\ out' = printed("Cannot download")
                      ELSE \* line 645: args has no attribute batch_download
                           /\ pc' = "crashed"
                           /\ out' = printed("AttributeError")
    /\ UNCHANGED <<current_start_index, current_sort_by, current_sort_order,
                   last_results_feed, total_results_count, settings,
                   downloaded_pdfs, partial, poll>>

(***************************************************************************)
(* Inputs.                                                                 *)
(***************************************************************************)
\* the lists of display numbers a user types: up to MaxBatch distinct
\* numbers ('download' is also given one number twice)
NumLists ==
    {l \in UNION {[1 .. k -> Nums] : k \in 0 .. MaxBatch} :
        \A i, j \in DOMAIN l : i # j => l[i] # l[j]}

\* the argument of 'download': a list, or text that int() rejects
DownloadArgs ==
    {[nums |-> l, ok |-> TRUE] : l \in NumLists}
        \cup {[nums |-> << d, d >>, ok |-> TRUE] : d \in Nums}
        \cup {[nums |-> << 1 >>, ok |-> FALSE]}

\* the lists typed after 'compare': numbers in rising or in falling order
CompareLists ==
    {l \in NumLists :
        \/ \A i, j \in DOMAIN l : i < j => l[i] < l[j]
        \/ \A i, j \in DOMAIN l : i < j => l[i] > l[j]}

\* the arguments of 'compare': a list and a comparison type, known or not
CompareArgs ==
    {[nums |-> l, ok |-> TRUE] : l \in CompareLists}
        \cup {[nums |-> << 1, 2 >>, ok |-> FALSE]}

\* the values typed after 'set max'
MaxInputs == {0, 1, 2}

\* the sort settings typed after 'set sort'
SortInputs == {<<"relevance", "ascending">>, <<"submittedDate", "descending">>}

\* the positions of a list whose number addresses an entry that is not yet
\* on disk: the only ones for which a transfer is attempted
FetchPositions(paper_nums) ==
    {i \in 1 .. Len(paper_nums) :
        LET e == _get_entry_from_results(last_results_feed, paper_nums[i])
        IN  e # 0 /\ PathOf(e) \notin disk}

\* the numbers for which a command gets as far as the file store
Uploadable(num) ==
    /\ gemini_enabled
    /\ num \in DOMAIN downloaded_pdfs
    /\ downloaded_pdfs[num] \in disk

Cached(num) ==
    Uploadable(num) /\ downloaded_pdfs[num] \in DOMAIN gemini_uploaded_files

\* the answers get_file can give to a command over these numbers; a single
\* one when the command does not get to ask
ChecksFor(nums) ==
    IF \E i \in DOMAIN nums : Cached(nums[i]) THEN FileStates ELSE {"ACTIVE"}

\* the number needs an upload: it gets to the file store and no cached
\* file is confirmed as ACTIVE
NeedsUpload(num, check) ==
    Uploadable(num) /\ (Cached(num) => check # "ACTIVE")

\* the outcomes of the upload for a command over one number
UploadsFor(num, check) ==
    IF NeedsUpload(num, check) THEN FileStates ELSE {"ACTIVE"}

\* the argument of a command over one number is looked at, and the model
\* is asked, only when a file was obtained
FlagsFor(num, up, before) ==
    IF Uploadable(num) /\ up = "ACTIVE" /\ before THEN BOOLEAN ELSE {TRUE}

\* the positions of a 'compare' list for which an upload is attempted
UploadPositions(paper_nums, check) ==
    IF \A i \in DOMAIN paper_nums : paper_nums[i] \in DOMAIN downloaded_pdfs
    THEN {i \in DOMAIN paper_nums : NeedsUpload(paper_nums[i], check)}
    ELSE {}

FailuresFor(fails) == IF fails = {} THEN {"error"} ELSE {"FAILED", "error"}

\* the model is asked to compare only when two files were obtained
AnswersFor(paper_nums, fails) ==
    IF Cardinality({i \in DOMAIN paper_nums : Uploadable(paper_nums[i])} \ fails)
           >= 2
    THEN BOOLEAN ELSE {TRUE}

(***************************************************************************)
(* A session in which the user queries, pages, downloads single papers and *)
(* uses Gemini.                                                            *)
(***************************************************************************)
DoQuery ==
    /\ pc = "prompt"
    /\ \E q \in Queries \cup {""}, ok \in BOOLEAN :
        Query(q, ok, Min(current_max_results, NumResults(q)))

DoNextPage ==
    /\ pc = "prompt"
    /\ \E ok \in BOOLEAN :
        \E n \in PageLens(current_query,
                          current_start_index + Len(last_results_feed.entries),
                          current_max_results) : NextPage(ok, n)

DoDownload ==
    /\ pc = "prompt"
    /\ \E a \in DownloadArgs :
        \E fails \in SUBSET FetchPositions(a.nums) :
            Download(a.nums, a.ok, fails)

DoDownloadOne ==
    /\ pc = "prompt"
    /\ \E num \in Nums :
        \E fails \in SUBSET FetchPositions(<< num >>) :
            Download(<< num >>, TRUE, fails)

DoAsk ==
    /\ pc = "prompt"
    /\ \E command \in AskCommands, num \in Nums :
        \E check \in ChecksFor(<< num >>) :
            \E up \in UploadsFor(num, check) :
                \E arg_ok \in FlagsFor(num, up, TRUE) :
                    \E ai_ok \in FlagsFor(num, up, arg_ok) :
                        Ask(command, num, arg_ok, check, up, ai_ok)

DoCompare ==
    /\ pc = "prompt"
    /\ \E a \in CompareArgs :
        \E check \in ChecksFor(a.nums) :
            \E fails \in SUBSET UploadPositions(a.nums, check) :
                \E upfail \in FailuresFor(fails), ai_ok \in AnswersFor(a.nums, fails) :
                    Compare(a.nums, a.ok, check, upfail, fails, ai_ok)

Next ==
    \/ Prompt
    \/ Quit
    \/ DoQuery
    \/ DoNextPage
    \/ DoDownloadOne
    \/ DoAsk
    \/ DoCompare
    \/ \E path \in disk : RemoveFile(path)

\* sessions without the Serper key
InitSession == Init /\ ~serper_api_key

Spec == InitSession /\ [][Next]_vars

(***************************************************************************)
(* A session without a Gemini key in which the user queries, pages,        *)
(* changes the settings and downloads single papers; the index may answer  *)
(* with a short page.                                                      *)
(***************************************************************************)
InitPaging == Init /\ ~gemini_enabled /\ ~serper_api_key

DoQueryShort ==
    /\ pc = "prompt"
    /\ \E q \in Queries \cup {""}, ok \in BOOLEAN :
        \E n \in PageLens(q, 0, current_max_results) : Query(q, ok, n)

NextPaging ==
    \/ Prompt
    \/ DoQueryShort
    \/ DoNextPage
    \/ DoDownloadOne
    \/ \E new_max \in MaxInputs : SetMax(new_max)
    \/ \E srt \in SortInputs : SetSort(srt[1], srt[2])

SpecPaging == InitPaging /\ [][NextPaging]_vars

(***************************************************************************)
(* A session without a Gemini key in which the user queries and downloads  *)
(* lists of papers, and files are deleted outside the program.             *)
(***************************************************************************)
NextDownload ==
    \/ Prompt
    \/ DoQuery
    \/ DoDownload
    \/ \E path \in disk : RemoveFile(path)

SpecDownload == InitPaging /\ [][NextDownload]_vars

(***************************************************************************)
(* A session in which the user also cites, lists the downloads, changes    *)
(* the model, asks for related work, types words that are no command, and  *)
(* ends the input; at least one of the two keys is missing.                *)
(***************************************************************************)
CiteInputs ==
    {<<"", 1, "">>, <<"x", 1, "">>}
        \cup {<<"N", num, format>> : num \in Nums,
                                     format \in {"", "apa", "xyz"}}

ShowInputs == {"downloads", "model", "x"}

UnknownInputs == {"foo", "exit"}

ModelInputs == {"", "gemini-2.0-flash"}

\* the answers of Serper that change what 'rel' does
RelInputs ==
    {<<FALSE, "error", 1, FALSE>>, <<TRUE, "error", 1, FALSE>>,
     <<TRUE, "results", 1, TRUE>>}
        \cup {<<TRUE, "empty", further, found>> :
                 further \in 1 .. 2, found \in BOOLEAN}

\* Gemini commands whose argument is valid and which the file store and
\* the model answer, but for the upload of a single paper
DoAskPlain ==
    /\ pc = "prompt"
    /\ \E command \in AskCommands, num \in Nums :
        \E up \in UploadsFor(num, "ACTIVE") :
            Ask(command, num, TRUE, "ACTIVE", up, TRUE)

DoComparePlain ==
    /\ pc = "prompt"
    /\ \E l \in {c \in CompareLists : Len(c) = 2 /\ c[1] < c[2]} :
        Compare(l, TRUE, "ACTIVE", "error", {}, TRUE)

DoCite ==
    /\ pc = "prompt"
    /\ \E c \in CiteInputs : Cite(c[1], c[2], c[3])

DoRel ==
    /\ pc = "prompt"
    /\ \E num \in Nums :
        \E r \in (IF serper_api_key /\ HasEntries(last_results_feed)
                  THEN RelInputs ELSE {<<TRUE, "error", 1, FALSE>>}) :
            Rel(num, r[1], r[2], r[3], r[4])

\* the commands that leave the model name alone
NextLoop ==
    \/ Prompt
    \/ Quit
    \/ EndOfInput
    \/ Interrupt
    \/ DoQueryShort
    \/ DoNextPage
    \/ DoDownloadOne
    \/ DoAskPlain
    \/ DoComparePlain
    \/ DoCite
    \/ DoRel
    \/ Help
    \/ EmptyLine
    \/ \E sub_command \in ShowInputs : Show(sub_command)
    \/ \E command \in UnknownInputs : Unknown(command)

NextLocal ==
    \/ NextLoop
    \/ \E new_model \in ModelInputs : SetModel(new_model)

InitLocal == Init /\ ~(gemini_enabled /\ serper_api_key)

SpecLocal == InitLocal /\ [][NextLocal]_vars

(***************************************************************************)
(* The command loop as it is scheduled: a handler that has returned is     *)
(* followed at once by the next input() (while True, line 131).  The model *)
(* name is left as it is.                                                  *)
(***************************************************************************)
SpecLoop == InitLocal /\ [][NextLoop]_vars /\ WF_vars(Prompt)

(***************************************************************************)
(* A session with a Gemini key in which the uploads are followed step by   *)
(* step.  The process is scheduled: sleep returns after its delay,         *)
(* get_file returns or raises, and the function returns to its caller.     *)
(* Nothing is assumed of what the file store answers.                      *)
(***************************************************************************)
DoUploadBegin ==
    /\ pc = "prompt"
    /\ \E command \in AskCommands, num \in DOMAIN downloaded_pdfs :
        \E check \in FileStates, first \in RemoteStates :
            UploadBegin(command, num, check, first)

DoPollGetFile ==
    /\ pc = "upload"
    /\ \E answer \in RemoteStates : PollGetFile(answer)

DoUploadReturn ==
    /\ pc = "upload"
    /\ \E ai_ok \in BOOLEAN : UploadReturn(ai_ok)

InitUpload == Init /\ gemini_enabled /\ ~serper_api_key

NextUpload ==
    \/ Prompt
    \/ DoQueryShort
    \/ DoDownloadOne
    \/ DoUploadBegin
    \/ PollSleep
    \/ DoPollGetFile
    \/ DoUploadReturn

SpecUpload ==
    /\ InitUpload
    /\ [][NextUpload]_vars
    /\ WF_vars(PollSleep)
    /\ WF_vars(DoPollGetFile)
    /\ WF_vars(DoUploadReturn)

(***************************************************************************)
(* Runs with --query: one run each, from the state main constructs.        *)
(***************************************************************************)
StartInputs == {0, 1}

MaxResultsInputs == {1, 2, DefaultMaxResults}

\* the outcomes of the transfer, the upload and the model that a run gets
\* to see: only a run with --ask and a number of the page transfers a file
OneShotOutcomes(ask, target) ==
    IF ask /\ target # 0
    THEN {<<f, u, a>> : f \in BOOLEAN, u \in FileStates, a \in BOOLEAN}
    ELSE {<<TRUE, "ACTIVE", TRUE>>}

DoOneShot ==
    /\ pc = "main"
    /\ \E query \in Queries, start \in StartInputs,
          maxres \in MaxResultsInputs, ok \in BOOLEAN :
        \E n \in PageLens(query, start, maxres) :
            \E given \in BOOLEAN, ask \in BOOLEAN :
                \E a \in (IF given THEN DownloadArgs
                          ELSE {[nums |-> << >>, ok |-> TRUE]}) :
                    \E o \in OneShotOutcomes(ask,
                                 ActionTarget(given, a.nums, a.ok)) :
                        OneShot(query, start, maxres, ok, n, given, a.nums,
                                a.ok, ask, o[1], o[2], o[3])

InitOneShot == Constructed /\ pc = "main"

NextOneShot == DoOneShot

SpecOneShot == InitOneShot /\ [][NextOneShot]_vars

(***************************************************************************)
(* Command 'set' with arguments that are refused, and sessions in which    *)
(* every kind of 'set' is typed.                                           *)
(***************************************************************************)
\* lines 509, 513, 523, 528: fewer than two words, a page size that is no
\* number, a sort field or order that matches none, an unknown setting
SetRejections ==
    {"Usage: set [max|sort|model] [value(s)]", "Invalid number for max",
     "Invalid sort field/order", "Unknown setting"}

SetRejected(message) ==
    /\ pc = "prompt"
    /\ pc' = "done"
    /\ pre' = Snapshot
    /\ cmd' = Cmd("set", message, << >>)
    /\ pagingRun' = FALSE
    /\ out' = Out(message)
    /\ reqs' = << >>
    /\ UNCHANGED <<state, env>>

NextSettings ==
    \/ Prompt
    \/ DoQueryShort
    \/ DoNextPage
    \/ DoDownloadOne
    \/ \E new_max \in MaxInputs : SetMax(new_max)
    \/ \E srt \in SortInputs : SetSort(srt[1], srt[2])
    \/ \E new_model \in ModelInputs : SetModel(new_model)
    \/ \E message \in SetRejections : SetRejected(message)

SpecSettings == InitPaging /\ [][NextSettings]_vars

(***************************************************************************)
(* Runs without --query: main copies --max-results, --sort-by and          *)
(* --sort-order into the new AppState (lines 564-566) and enters the       *)
(* command loop (line 815).                                                *)
(***************************************************************************)
\* line 135: the page indicator of the prompt divides by the page size; the
\* ZeroDivisionError is caught at line 535 and the loop starts over, so no
\* command is ever read
PromptDefined(max_results) == max_results # 0

StartInteractive(max_results, sort_by, sort_order) ==
    /\ pc = "main"
    /\ pc' = IF PromptDefined(max_results) THEN "prompt" ELSE "stuck"
    /\ current_max_results' = max_results
    /\ current_sort_by' = sort_by
    /\ current_sort_order' = sort_order
    /\ UNCHANGED <<current_query, current_start_index, last_results_feed,
                   total_results_count, settings, downloaded_pdfs,
                   gemini_uploaded_files, env, cmd, out, reqs, pre,
                   pagingRun>>

\* values of --max-results: argparse takes any integer
MaxResultsArgs == {-1, 0, 1, 2, DefaultMaxResults, 2001}

DoStartInteractive ==
    /\ pc = "main"
    /\ \E max_results \in MaxResultsArgs, srt \in SortInputs :
        StartInteractive(max_results, srt[1], srt[2])

InitArgs == InitOneShot /\ ~gemini_enabled /\ ~serper_api_key

NextArgs ==
    \/ DoStartInteractive
    \/ Prompt
    \/ DoQueryShort
    \/ DoNextPage
    \/ \E new_max \in MaxInputs : SetMax(new_max)

SpecArgs == InitArgs /\ [][NextArgs]_vars

(***************************************************************************)
(* Sessions that are interrupted while a PDF is written, and the runs of   *)
(* the program that follow on the same download directory.                 *)
(***************************************************************************)
\* 'download N' with Ctrl-C while download_pdf writes the chunks
\* (arxiv_client.py lines 173-175): KeyboardInterrupt is no Exception, so
\* none of the handlers of lines 188-204 removes the file; the handler of
\* main.py line 533 ends the loop
DownloadInterrupted(num) ==
    /\ pc = "prompt"
    /\ HasEntries(last_results_feed)
    /\ LET entry == _get_entry_from_results(last_results_feed, num)
       IN  /\ entry # 0
           /\ PathOf(entry) \notin disk
           /\ disk' = disk \cup {PathOf(entry)}
           /\ partial' = partial \cup {PathOf(entry)}
           /\ reqs' = << Req("pdf", entry) >>
    /\ pc' = "exited"
    /\ pre' = Snapshot
    /\ cmd' = Cmd("download", "", << num >>)
    /\ out' = Out("Interrupt received")
    /\ UNCHANGED <<state, uploadCount, poll, pagingRun>>

\* the program is started again without --query: main constructs a new
\* AppState (line 563) and enters the command loop; the keys and the
\* download directory are those of the run before
Restart ==
    /\ pc = "exited"
    /\ pc' = "prompt"
    /\ current_query' = ""
    /\ current_start_index' = 0
    /\ current_max_results' = DefaultMaxResults
    /\ current_sort_by' = "submittedDate"
    /\ current_sort_order' = "descending"
    /\ last_results_feed' = NoFeed
    /\ total_results_count' = 0
    /\ gemini_model_name' = DefaultModel
    /\ downloaded_pdfs' = EmptyMap
    /\ gemini_uploaded_files' = EmptyMap
    /\ cmd' = NoCmd
    /\ out' = Out("")
    /\ reqs' = << >>
    /\ pre' = NoPre
    /\ pagingRun' = FALSE
    /\ UNCHANGED <<gemini_enabled, serper_enabled, serper_api_key, env>>

DoDownloadInterrupted ==
    /\ pc = "prompt"
    /\ \E num \in Nums : DownloadInterrupted(num)

NextRestart ==
    \/ Prompt
    \/ Quit
    \/ DoQueryShort
    \/ DoDownloadOne
    \/ DoDownloadInterrupted
    \/ Restart

SpecRestart == InitPaging /\ [][NextRestart]_vars

(***************************************************************************)
(* rel_command.search_scholar_serper (gemini_client.py holds a copy that   *)
(* differs in its prints only): one call, from the answers of the two      *)
(* Serper endpoints.                                                       *)
(***************************************************************************)
\* what an endpoint answers: a decoded response with n organic results, or
\* one of the failures the function handles (lines 77-99)
SerperFailures ==
    {"Timeout", "HTTPError", "RequestException", "JSONDecodeError", "Exception"}

SerperAnswers ==
    [kind : {"ok"}, n : 0 .. 2] \cup [kind : SerperFailures, n : {0}]

\* line 63: the fallback is tried when the primary answer has no results
TriesFallbackAlsoOnFailure(primary) == primary.kind # "ok" \/ primary.n = 0

TriesFallback(primary) == primary.kind = "ok" /\ primary.n = 0

\* the organic results of an answer
Organic(query, n) == [i \in 1 .. n |-> << query, i >>]

\* the list returned (failed: None is returned instead) and the requests
\* sent, in order
search_scholar_serper(query, num_results, primary, fallback) ==
    LET first == Req("scholar", << query, num_results >>)
        second == Req("search",
                      << query, "site:scholar.google.com", num_results >>)
        sent == IF TriesFallback(primary) THEN << first, second >>
                ELSE << first >>
        last == IF TriesFallback(primary) THEN fallback ELSE primary
    IN  [reqs |-> sent,
         failed |-> last.kind # "ok",
         results |-> IF last.kind = "ok" THEN Organic(query, last.n)
                     ELSE << >>]

\* one call of the function; cmd holds its arguments and the answers of
\* the endpoints, out what it returned
SerperCall(query, num_results, primary, fallback) ==
    /\ pc = "search"
    /\ pc' = "returned"
    /\ LET r == search_scholar_serper(query, num_results, primary, fallback)
       IN  /\ reqs' = r.reqs
           /\ out' = [Out(IF r.failed THEN "None" ELSE "list")
                        EXCEPT !.items = r.results]
    /\ cmd' = [name |-> "search_scholar_serper", text |-> query,
               nums |-> << num_results >>, primary |-> primary,
               fallback |-> fallback]
    /\ pre' = Snapshot
    /\ UNCHANGED <<state, env, pagingRun>>

DoSerperCall ==
    /\ pc = "search"
    /\ \E query \in Queries, num_results \in {5, 10} :
        \E primary \in SerperAnswers, fallback \in SerperAnswers :
            SerperCall(query, num_results, primary, fallback)

\* handle_rel_command calls the function only with a key (line 113)
InitSerper == Constructed /\ serper_api_key /\ pc = "search"

NextSerper == DoSerperCall

SpecSerper == InitSerper /\ [][NextSerper]_vars

(***************************************************************************)
(* Properties.  A state with pc = "done" is the state right after one      *)
(* command: cmd is the command, pre the session state and the disk it      *)
(* found, out what it printed, reqs the remote requests it issued.         *)
(***************************************************************************)
Done(names) == pc = "done" /\ cmd.name \in names

\* the positions of a sequence of requests that call the given service
Calls(requests, api) == {i \in DOMAIN requests : requests[i].api = api}

\* C1: right after every query command with a non-empty text the download
\* map and the upload map are both empty, whatever the text was before and
\* whether or not the index request succeeded.
C1_QueryClearsMaps ==
    (Done({"q"}) /\ cmd.text # "")
        => /\ downloaded_pdfs = EmptyMap
           /\ gemini_uploaded_files = EmptyMap

\* a query with the text of the active query fails while both maps hold
\* an entry
C1_Witness ==
    /\ Done({"q"})
    /\ cmd.text # ""
    /\ cmd.text = pre.s.query
    /\ DOMAIN pre.s.downloads # {}
    /\ DOMAIN pre.s.uploads # {}
    /\ ~last_results_feed.loaded
    /\ downloaded_pdfs = EmptyMap
    /\ gemini_uploaded_files = EmptyMap

\* C2: after a successful query followed by any number of next-page
\* commands, the entry at zero-based position i of the loaded page is
\* displayed with the number offset + i + 1, the displayed numbers are
\* pairwise different, and each number addresses its own entry.
C2_DisplayNumbers ==
    (pagingRun /\ HasEntries(last_results_feed))
        => LET shown == display_results(last_results_feed, current_start_index)
               positions == 1 .. Len(last_results_feed.entries)
           IN  /\ DOMAIN shown = positions
               /\ \A i \in positions :
                    /\ shown[i] = current_start_index + (i - 1) + 1
                    /\ _get_entry_from_results(last_results_feed, shown[i])
                           = last_results_feed.entries[i]
               /\ \A i, j \in positions : i # j => shown[i] # shown[j]
               /\ Done({"q", "n"}) /\ out.shown # << >> => out.shown = shown

\* a second page of two entries has just been displayed
C2_Witness ==
    /\ pagingRun
    /\ Done({"n"})
    /\ current_start_index > 0
    /\ Len(last_results_feed.entries) = 2
    /\ out.shown = << current_start_index + 1, current_start_index + 2 >>

\* C3: a next-page command whose index request fails leaves the offset at
\* the value it had before the command and keeps the last loaded page.
C3_FailedNextPageRollsBack ==
    (Done({"n"}) /\ reqs # << >> /\ ~last_results_feed.loaded)
        => /\ current_start_index = pre.s.offset
           /\ last_results_feed = pre.s.feed

\* C4: a next-page command given when offset + size of the last page is at
\* least the total count issues no index request and leaves the offset and
\* the loaded page as they were; with a query active and a non-empty page
\* loaded it reports the end of the results.
C4_NextPageAtEnd ==
    (Done({"n"}) /\ pre.s.offset + Len(pre.s.feed.entries) >= pre.s.total)
        => /\ reqs = << >>
           /\ current_start_index = pre.s.offset
           /\ last_results_feed = pre.s.feed
           /\ SessionState = pre.s
           /\ (pre.s.query # "" /\ HasEntries(pre.s.feed))
                  => out.msg = "Already at the end"

\* the last record of a result set of several pages is on the loaded page
C4_Witness ==
    /\ Done({"n"})
    /\ pre.s.offset > 0
    /\ HasEntries(pre.s.feed)
    /\ pre.s.offset + Len(pre.s.feed.entries) = pre.s.total
    /\ out.msg = "Already at the end"
    /\ reqs = << >>

\* the items of the processed list of a 'download' command
Items == IF Done({"download"}) /\ out.msg = "download" THEN out.items ELSE << >>

\* the positions of the transfers of the PDF of an entry among the requests
Fetches(entry) == {j \in Calls(reqs, "pdf") : reqs[j].arg = entry}

\* C5: a download request for a display number whose PDF file is already
\* in the download directory, as an earlier successful request for it
\* leaves it, performs no network fetch and returns the path of that file;
\* a successful request leaves the file at the returned path, and the
\* requests of one list for one paper that all succeed perform at most one
\* fetch together.
C5_DownloadIdempotentOnceStored ==
    \A i \in DOMAIN Items :
        LET it == Items[i]
            same == {k \in DOMAIN Items : Items[k].entry = it.entry}
        IN  it.entry # 0 =>
              /\ PathOf(it.entry) \in pre.disk
                    => /\ Fetches(it.entry) = {}
                       /\ it.path = PathOf(it.entry)
                       /\ downloaded_pdfs[it.num] = it.path
              /\ it.path # NoPath
                    => /\ it.path = PathOf(it.entry)
                       /\ it.path \in disk
                       /\ downloaded_pdfs[it.num] = it.path
              /\ (\A k \in same : Items[k].path # NoPath)
                    => Cardinality(Fetches(it.entry)) <= 1

\* a number that an earlier request has downloaded is requested again
C5_Witness ==
    /\ Len(Items) = 1
    /\ Items[1].entry # 0
    /\ Items[1].num \in DOMAIN pre.s.downloads
    /\ pre.s.downloads[Items[1].num] = Items[1].path
    /\ Items[1].path \in pre.disk
    /\ reqs = << >>

\* C5 as stated: two download requests for one display number with no
\* query between them perform at most one fetch in total, and the second
\* returns the path the first returned.
C5_TwoRequestsOneFetch ==
    \A i, k \in DOMAIN Items :
        (i < k /\ Items[i].num = Items[k].num /\ Items[i].entry # 0)
            => /\ Cardinality(Fetches(Items[i].entry)) <= 1
               /\ Items[k].path = Items[i].path

\* the items of a processed list answer the requested numbers in order,
\* every addressed entry that is not on disk is fetched whatever happened
\* to the items before it, the count of successes is the number of items
\* with a path, and the download map gains exactly those items
BatchHandled ==
    LET good == {i \in DOMAIN Items : Items[i].path # NoPath}
    IN  /\ Len(Items) = Len(cmd.nums)
        /\ \A i \in DOMAIN Items :
             /\ Items[i].num = cmd.nums[i]
             /\ Items[i].entry = _get_entry_from_results(pre.s.feed, cmd.nums[i])
             /\ (Items[i].entry # 0 /\ PathOf(Items[i].entry) \notin pre.disk)
                    => Fetches(Items[i].entry) # {}
        /\ out.succ = Cardinality(good)
        /\ DOMAIN downloaded_pdfs
               = DOMAIN pre.s.downloads \cup {Items[i].num : i \in good}
        /\ \A i \in good : downloaded_pdfs[Items[i].num] = Items[i].path
        /\ \A num \in DOMAIN pre.s.downloads \ {Items[i].num : i \in good} :
             downloaded_pdfs[num] = pre.s.downloads[num]

StaleHandle ==
    /\ Done(AskCommands)
    /\ Len(reqs) >= 2
    /\ reqs[1].api = "get_file"
    /\ reqs[2].api # "generate"

\* the path of the paper of such a command and the handle cached for it
AskedPath == pre.s.downloads[cmd.nums[1]]

StaleFile == pre.s.uploads[AskedPath]

OneUpload ==
    /\ Cardinality(Calls(reqs, "upload")) = 1
    /\ \A j \in Calls(reqs, "upload") : reqs[j].arg = AskedPath

\* C7: when the cached handle of a path is found on re-validation to be no
\* longer active, exactly one upload request is issued for the path; if
\* the upload succeeds the entry of the path is the newly returned handle,
\* if it fails the path has no entry; the stale handle is in the map in
\* neither case.
C7_StaleHandleReuploadedOnce ==
    StaleHandle
        => /\ reqs[1].arg = StaleFile.name
           /\ OneUpload
           /\ IF out.msg = "PDF upload/retrieval failed"
              THEN AskedPath \notin DOMAIN gemini_uploaded_files
              ELSE /\ AskedPath \in DOMAIN gemini_uploaded_files
                   /\ gemini_uploaded_files[AskedPath] = File(uploadCount)
                   /\ gemini_uploaded_files[AskedPath].name # StaleFile.name

\* the file store reports the cached file as FAILED and the upload succeeds
C7_Witness ==
    /\ StaleHandle
    /\ reqs[2].api = "delete_file"
    /\ OneUpload
    /\ AskedPath \in DOMAIN gemini_uploaded_files
    /\ gemini_uploaded_files[AskedPath].name # StaleFile.name

\* C7 as stated: afterwards the entry of the path is always the newly
\* returned handle.
C7_StaleHandleAlwaysReplaced ==
    StaleHandle
        => /\ OneUpload
           /\ AskedPath \in DOMAIN gemini_uploaded_files
           /\ gemini_uploaded_files[AskedPath].name # StaleFile.name

\* the positions of a 'compare' list whose paper has a handle in the upload
\* map after the command, and the names of these handles in list order
Obtained ==
    {i \in DOMAIN cmd.nums :
        /\ cmd.nums[i] \in DOMAIN pre.s.downloads
        /\ pre.s.downloads[cmd.nums[i]] \in DOMAIN gemini_uploaded_files}

ObtainedFiles ==
    LET IsObtained(num) ==
            /\ num \in DOMAIN pre.s.downloads
            /\ pre.s.downloads[num] \in DOMAIN gemini_uploaded_files
        nums == SelectSeq(cmd.nums, IsObtained)
    IN  [k \in 1 .. Len(nums) |->
            gemini_uploaded_files[pre.s.downloads[nums[k]]].name]

NotAllDownloaded ==
    \E i \in DOMAIN cmd.nums : cmd.nums[i] \notin DOMAIN pre.s.downloads

Untouched == SessionState = pre.s /\ disk = pre.disk

\* C9: with Gemini enabled, ask, ask_fig, sum and ext for a number that is
\* not in the download map, and compare for a list with such a number, are
\* refused with the "not downloaded" message, issue no request and change
\* nothing; when one of these commands does invoke the model, the numbers
\* were downloaded before the command, no PDF is fetched by it, and the
\* model request is its last request, after those that make the files
\* available to Gemini.
C9_RefusedUntilDownloaded ==
    /\ (Done(AskCommands) /\ gemini_enabled
            /\ cmd.nums[1] \notin DOMAIN pre.s.downloads)
          => /\ out.msg = "PDF not downloaded"
             /\ reqs = << >>
             /\ Untouched
    /\ (Done({"compare"}) /\ gemini_enabled /\ Len(cmd.nums) >= 2
            /\ cmd.text = "" /\ NotAllDownloaded)
          => /\ out.msg = "papers are not downloaded"
             /\ reqs = << >>
             /\ Untouched
    /\ Done(AskCommands \cup {"compare"})
          => \A g \in Calls(reqs, "generate") :
                /\ ~NotAllDownloaded
                /\ Calls(reqs, "pdf") = {}
                /\ g = Len(reqs)
                /\ g > 1
                /\ \A j \in 1 .. (g - 1) :
                      reqs[j].api \in {"get_file", "delete_file", "upload"}
                /\ Calls(reqs, "get_file") \cup Calls(reqs, "upload") # {}

\* 'sum' for a number of the displayed page that was never downloaded
C9_Witness ==
    /\ Done({"sum"})
    /\ gemini_enabled
    /\ _get_entry_from_results(pre.s.feed, cmd.nums[1]) # 0
    /\ cmd.nums[1] \notin DOMAIN pre.s.downloads
    /\ out.msg = "PDF not downloaded"
    /\ reqs = << >>

\* C9 as stated: for a valid number that is not yet downloaded the command
\* does not refuse; it downloads the PDF, registers the upload and invokes
\* the model, in that order.
C9_DownloadsThenUploadsThenAsks ==
    (Done(AskCommands) /\ gemini_enabled
        /\ _get_entry_from_results(pre.s.feed, cmd.nums[1]) # 0
        /\ cmd.nums[1] \notin DOMAIN pre.s.downloads)
      => /\ out.msg # "PDF not downloaded"
         /\ Calls(reqs, "pdf") # {}
         /\ \A f \in Calls(reqs, "pdf"), u \in Calls(reqs, "upload"),
               g \in Calls(reqs, "generate") : f < u /\ u < g

\* a remote call of the command failed: the index request of a query or of
\* a next page, the transfer of the one PDF of a download, the upload of
\* the PDF of a question
RemoteFailure ==
    \/ Done({"q", "n"}) /\ reqs # << >> /\ ~last_results_feed.loaded
    \/ Len(Items) = 1 /\ Items[1].entry # 0 /\ Items[1].path = NoPath
    \/ Done(AskCommands) /\ out.msg = "PDF upload/retrieval failed"

\* C10: a command one of whose remote calls fails leaves the session state
\* as it was, except that the failed upload of a path may have removed the
\* entry of the path from the upload map; a failed next page has rolled
\* the offset back, and a failed query leaves query, offset, maps, page
\* and total count as they were.
C10_FailureLeavesSessionState ==
    RemoteFailure
        => /\ [SessionState EXCEPT !.uploads = pre.s.uploads] = pre.s
           /\ DOMAIN gemini_uploaded_files \subseteq DOMAIN pre.s.uploads
           /\ \A path \in DOMAIN gemini_uploaded_files :
                gemini_uploaded_files[path] = pre.s.uploads[path]
           /\ Done({"q", "n", "download"})
                => gemini_uploaded_files = pre.s.uploads

(***************************************************************************)
(* Resolving display numbers.                                              *)
(***************************************************************************)
\* the integers tried as display numbers: below the first number, the
\* numbers of every page, and beyond the last result
DisplayNumbers == (0 - 1) .. (MaxTotal + 2)

\* C11: for every integer d, resolving d against the loaded page gives the
\* record at index d - 1 - page start when a page is loaded and that index
\* lies within the page, and not-found otherwise (d at or below the page
\* start, d beyond the page, no page loaded); a download command given a
\* number that resolves to not-found changes nothing of the session state.
C11_ResolveByPageOffset ==
    /\ \A d \in DisplayNumbers :
         LET index == d - 1 - last_results_feed.startindex
             records == last_results_feed.entries
             found == _get_entry_from_results(last_results_feed, d)
         IN  IF last_results_feed.loaded /\ 0 <= index /\ index < Len(records)
             THEN found = records[index + 1]
             ELSE found = 0
    /\ (Done({"download"}) /\ out.msg = "download")
         => \A k \in DOMAIN out.items :
              /\ out.items[k].entry
                     = _get_entry_from_results(pre.s.feed, out.items[k].num)
              /\ (Len(out.items) = 1 /\ out.items[k].entry = 0)
                     => SessionState = pre.s /\ disk = pre.disk

\* on a page that starts past the first result, a download command was
\* given a number at or below the page start and found no record, while the
\* first number of the page resolves to the first record
C11_Witness ==
    /\ Done({"download"})
    /\ out.msg = "download"
    /\ last_results_feed.startindex > 0
    /\ Len(out.items) = 1
    /\ out.items[1].num <= last_results_feed.startindex
    /\ out.items[1].entry = 0
    /\ _get_entry_from_results(last_results_feed,
                               last_results_feed.startindex + 1)
           = last_results_feed.entries[1]

(***************************************************************************)
(* Local commands.                                                         *)
(***************************************************************************)
LocalCommands == {"unknown", "help", "show", "cite"}

\* C12: a word that is no command, help, show (downloads, model or
\* anything else) and cite leave every field of the session state as it
\* was: query, offset, page size, sort, loaded page, total, download map,
\* upload map, model and the two capability flags; a word that is no
\* command always prints the unknown-command message quoting the word, and
\* issues no request.
C12_LocalCommandsReadOnly ==
    /\ Done(LocalCommands) => SessionState = pre.s
    /\ Done({"unknown"})
         => /\ out = [Out("Unknown command") EXCEPT !.text = <<cmd.text>>]
            /\ reqs = << >>

\* a word that is no command was typed in a session with a page loaded, a
\* paper downloaded and uploaded, and the model changed
C12_Witness ==
    /\ Done({"unknown"})
    /\ HasEntries(last_results_feed)
    /\ DOMAIN downloaded_pdfs # {}
    /\ DOMAIN gemini_uploaded_files # {}
    /\ gemini_model_name # DefaultModel
    /\ SessionState = pre.s

(***************************************************************************)
(* Missing keys.                                                           *)
(***************************************************************************)
GeminiCommands == AskCommands \cup {"compare"}

\* C13: without the Gemini key, ask, ask_fig, sum, ext and compare print
\* that Gemini is disabled, issue no request and change nothing, and the
\* loop goes on; without the Serper key, rel prints that Serper is not
\* configured, issues no request and changes nothing, and the loop goes on.
C13_MissingKeyDisablesCommands ==
    /\ (cmd.name \in GeminiCommands /\ ~gemini_enabled)
         => /\ pc = "done"
            /\ out = Out("Gemini disabled")
            /\ reqs = << >>
            /\ SessionState = pre.s /\ disk = pre.disk
    /\ (cmd.name = "rel" /\ ~serper_api_key)
         => /\ pc = "done"
            /\ out = Out("Serper API not configured")
            /\ reqs = << >>
            /\ SessionState = pre.s /\ disk = pre.disk

\* with neither key, rel was refused for a paper of the loaded page that is
\* downloaded
C13_Witness ==
    /\ Done({"rel"})
    /\ ~serper_api_key
    /\ ~gemini_enabled
    /\ cmd.nums[1] \in DOMAIN downloaded_pdfs
    /\ _get_entry_from_results(last_results_feed, cmd.nums[1]) # 0
    /\ out = Out("Serper API not configured")
    /\ reqs = << >>

(***************************************************************************)
(* Runs with --query.                                                      *)
(***************************************************************************)
\* what the commands 'q' and then 'download' with the same list do on the
\* page a run with --query displayed, every transfer succeeding
InteractiveDownload ==
    IF HasEntries(cmd.feed) /\ cmd.ok /\ Len(cmd.nums) > 0
    THEN DownloadLoop(cmd.feed, cmd.nums, 1, {},
                      [downloads |-> EmptyMap, files |-> {}, reqs |-> << >>,
                       items |-> << >>, succ |-> 0])
    ELSE [downloads |-> EmptyMap, files |-> {}, reqs |-> << >>,
          items |-> << >>, succ |-> 0]

\* C14: a run with --query ends normally, and a run with --query and
\* --download N[,M,...] from the first page requests the same files in the
\* same order, and ends with the same download map, the same files on
\* disk and the same number of successes, as the commands 'q' and
\* 'download N[,M,...]' do.
C14_OneShotAsInteractive ==
    (cmd.name = "one-shot" /\ pc # "main")
        => /\ pc = "exited"
           /\ (cmd.given /\ ~cmd.ask /\ cmd.start = 0)
                => /\ SelectSeq(reqs, LAMBDA r : r.api = "pdf")
                          = InteractiveDownload.reqs
                   /\ downloaded_pdfs = InteractiveDownload.downloads
                   /\ disk = InteractiveDownload.files

(***************************************************************************)
(* The end of the command loop.                                            *)
(***************************************************************************)
LoopEnds == {"quit", "EOF", "interrupt"}

C16_AskFigRequestDiffers ==
    (Done({"ask_fig"}) /\ out.msg \in {"response", "Gemini failed"})
        => LET sent == reqs[Len(reqs)]
           IN  /\ sent.api = "generate"
               /\ sent.arg # GeminiCall("ask", sent.arg.files[1],
                                        gemini_model_name)

(***************************************************************************)
(* Citations.                                                              *)
(***************************************************************************)
\* the last word of a name
Surname(name) == name[Len(name)]

\* the last n tokens of a text
Ending(text, n) == SubSeq(text, Len(text) - n + 1, Len(text))

\* C17: for a paper with at least one author, the APA citation printed by
\* cite starts with the surname of the first author and ends with the DOI
\* of the paper if it has one, and with the address of its abstract page
\* otherwise.
C17_ApaSurnameFirstDoiOrUrlLast ==
    (Done({"cite"}) /\ out.msg = "citation" /\ cmd.text = "apa")
        => LET r == Record(_get_entry_from_results(pre.s.feed, cmd.nums[1]))
           IN  Len(r.authors) >= 1
                 => /\ out.text[1] = Surname(r.authors[1])
                    /\ IF r.arxiv_doi # << >>
                       THEN Ending(out.text, Len(r.arxiv_doi)) = r.arxiv_doi
                       ELSE Ending(out.text, Len(r.link)) = r.link

(***************************************************************************)
(* Contiguous pages.                                                       *)
(***************************************************************************)
\* a next-page command has fetched and loaded a page
PageFetched ==
    /\ Done({"n"})
    /\ Calls(reqs, "index") # {}
    /\ last_results_feed.loaded

\* C18: after every successful next-page the offset is the offset before
\* plus the number of records of the page loaded before, whatever the page
\* size, and the page fetched starts right after that page: between two
\* queries no position is skipped and none is fetched twice.
C18_NextPagesContiguous ==
    PageFetched
        => /\ current_start_index
                  = pre.s.offset + Len(pre.s.feed.entries)
           /\ reqs[1].arg
                  = pre.s.feed.startindex + Len(pre.s.feed.entries)

\* a command that went through the upload and found the file not usable
UploadFailed ==
    /\ Done(AskCommands)
    /\ out.msg = "PDF upload/retrieval failed"

\* C19: in every state each handle in the upload map is one that was seen
\* in state ACTIVE when it was stored; and when an upload ends in a failure
\* state or raises an error, the command gets no file and the upload map
\* has no entry for the path of the paper afterwards.
C19_OnlyActiveHandlesFailureEvicts ==
    /\ \A path \in DOMAIN gemini_uploaded_files :
            gemini_uploaded_files[path].state = "ACTIVE"
    /\ UploadFailed
            => /\ Calls(reqs, "generate") = {}
               /\ AskedPath \notin DOMAIN gemini_uploaded_files

\* the cached handle of the paper is stale and the new upload fails while
\* another path keeps its handle
C19_Witness ==
    /\ UploadFailed
    /\ AskedPath \in DOMAIN pre.s.uploads
    /\ AskedPath \notin DOMAIN gemini_uploaded_files
    /\ DOMAIN gemini_uploaded_files # {}

\* C20: the wait for processing goes on only while the file store reports
\* PROCESSING, ends as soon as it reports anything else, and ends after a
\* bounded number of polls even when the file store never reports anything
\* else: an upload that has begun always returns.
C20_PollAlwaysTerminates ==
    /\ [][(pc = "upload" /\ poll.at = "get_file")
              => /\ poll'.at = "sleep" <=> poll'.file_state = "PROCESSING"
                 /\ poll'.at = "return" <=> poll'.file_state # "PROCESSING"]_vars
    /\ (pc = "upload") ~> (pc = "done")

\* a command over one paper reached the test of line 246 and found the file
\* of the paper gone
AskFoundMissing ==
    /\ Done(AskCommands)
    /\ pre.s.gemini_enabled
    /\ cmd.nums[1] \in DOMAIN pre.s.downloads
    /\ pre.s.downloads[cmd.nums[1]] \notin pre.disk

\* the requests that concern a path: its upload, and the calls that name
\* the handle cached for it before the command
RequestsFor(path) ==
    {j \in DOMAIN reqs :
        \/ reqs[j].api = "upload" /\ reqs[j].arg = path
        \/ /\ reqs[j].api \in {"get_file", "delete_file"}
           /\ path \in DOMAIN pre.s.uploads
           /\ reqs[j].arg = pre.s.uploads[path].name}

\* C21: when 'ask', 'ask_fig', 'sum', 'ext' or 'compare' finds the file of
\* display number N gone from the disk, the entry of N is removed from the
\* download map and the entry of the path from the upload map, no request
\* is issued for that paper, and the missing file is reported.
C21_MissingFileEvicted ==
    /\ AskFoundMissing
            => /\ cmd.nums[1] \notin DOMAIN downloaded_pdfs
               /\ AskedPath \notin DOMAIN gemini_uploaded_files
               /\ reqs = << >>
               /\ out.msg = "PDF file missing"
    /\ Done({"compare"})
            => \A k \in DOMAIN out.items :
                    /\ out.items[k].path \notin pre.disk
                    /\ out.items[k].num \notin DOMAIN downloaded_pdfs
                    /\ out.items[k].path \notin DOMAIN gemini_uploaded_files
                    /\ RequestsFor(out.items[k].path) = {}
    /\ (Done({"compare"}) /\ out.msg # "Unexpected error")
            => \A i \in DOMAIN cmd.nums :
                    (/\ pre.s.gemini_enabled
                     /\ cmd.text = ""
                     /\ Len(cmd.nums) >= 2
                     /\ \A j \in DOMAIN cmd.nums :
                            cmd.nums[j] \in DOMAIN pre.s.downloads
                     /\ pre.s.downloads[cmd.nums[i]] \notin pre.disk)
                        => \E k \in DOMAIN out.items :
                                out.items[k].num = cmd.nums[i]

\* a comparison finds the file of a paper gone whose handle was cached,
\* and uploads another paper
C21_Witness ==
    /\ Done({"compare"})
    /\ Calls(reqs, "upload") # {}
    /\ \E k \in DOMAIN out.items :
            out.items[k].path \in DOMAIN pre.s.uploads

\* C22: in every state each entry N -> path of the download map is the PDF
\* of the record that display number N addresses in the result set being
\* paged; stated for the numbers of the loaded page, where that record is
\* the one _get_entry_from_results returns.
C22_DownloadMapOfCurrentResultSet ==
    \A num \in DOMAIN downloaded_pdfs :
        LET entry == _get_entry_from_results(last_results_feed, num)
        IN  entry # 0 => downloaded_pdfs[num] = PathOf(entry)

\* one call of search_scholar_serper has returned
Searched == pc = "returned" /\ cmd.name = "search_scholar_serper"

C24_ExistingFilesAreComplete ==
    /\ Done({"download"})
            => \A k \in DOMAIN out.items :
                    (out.items[k].entry # 0 /\ out.items[k].path = NoPath)
                        => PathOf(out.items[k].entry) \notin disk
    /\ \A num \in DOMAIN downloaded_pdfs : downloaded_pdfs[num] \notin partial

\* the session without the fields that the setting of a 'set' command names
Besides(s, name) ==
    << s.query, s.offset, s.feed, s.total, s.downloads, s.uploads,
       s.gemini_enabled, s.serper_enabled >>
    \o (IF name = "set max" THEN << >> ELSE << s.max_results >>)
    \o (IF name = "set sort" THEN << >> ELSE << s.sort_by, s.sort_order >>)
    \o (IF name = "set model" THEN << >> ELSE << s.model >>)

SetCommands == {"set max", "set sort", "set model", "set"}

\* C25: a 'set' command changes only the field it names: the query text,
\* the offset, the loaded page, the total, the download map and the upload
\* map stay as they were; a 'set' with an unknown setting or an invalid
\* value changes nothing at all.
C25_SetChangesOnlyItsField ==
    Done(SetCommands)
        => /\ Besides(SessionState, cmd.name) = Besides(pre.s, cmd.name)
           /\ disk = pre.disk
           /\ reqs = << >>
           /\ (cmd.name = "set" \/ out.msg = "Model name cannot be empty")
                  => SessionState = pre.s

\* C26: in every state in which a page with entries is loaded, the offset
\* of the session is the start offset of that page, the value by which
\* _get_entry_from_results resolves a display number.
C26_OffsetIsStartOfLoadedPage ==
    HasEntries(last_results_feed)
        => current_start_index = last_results_feed.startindex

\* C27: in every state of the command loop the page size is an integer
\* from 1 to 2000, whether it came from the command line or from
\* 'set max', so the page indicator of the prompt is always defined.
C27_PageSizeInRange ==
    pc \in {"prompt", "done", "stuck"}
        => /\ current_max_results \in 1 .. 2000
           /\ PromptDefined(current_max_results)

\* C28: the arguments are checked before anything else is done: a 'sum'
\* with an unknown style, an 'ext' with an unknown or missing type and an
\* 'ask' or 'ask_fig' with a malformed question are refused with no upload
\* and no other request to Gemini issued and the upload map unchanged.
C28_ArgumentsCheckedBeforeUpload ==
    (Done(AskCommands) /\ out.msg = "Invalid argument")
        => /\ reqs = << >>
           /\ gemini_uploaded_files = pre.s.uploads

\* C29: while Gemini is not enabled no command, 'rel' included, issues a
\* request to Gemini; and every request to Gemini names the model that is
\* selected in the session.
C29_GeminiOnlyWhenEnabledWithSelectedModel ==
    pc = "done"
        => /\ ~pre.s.gemini_enabled => Calls(reqs, "generate") = {}
           /\ \A j \in Calls(reqs, "generate") : reqs[j].arg.model = pre.s.model

\* C30: in every state, in interactive and in one-shot mode, every key of
\* the upload map is the value of some entry of the download map.
C30_UploadedFilesAreDownloaded ==
    \A path \in DOMAIN gemini_uploaded_files :
        \E n \in DOMAIN downloaded_pdfs : downloaded_pdfs[n] = path

====
